---- MODULE Spec2Model ----
(***************************************************************************)
(* A model of spotify_to_youtube.py: one run of the converter.             *)
(*                                                                         *)
(* Strings are modelled as sequences of tokens (words); f"{a} {b}" is the  *)
(* concatenation of the two token sequences.  Remote services (Spotify,    *)
(* the YouTube Data API) are the environment: their content is fixed by    *)
(* the definitions of the section "The remote world", drawn in Init where  *)
(* it is the destination's content or the cache file, and every remote     *)
(* call may fail.                                                          *)
(***************************************************************************)
EXTENDS Integers, Sequences, FiniteSets, TLC

(***************************************************************************)
(* Bounds of the model.                                                    *)
(***************************************************************************)
\* the longest list of playlist ids the user enters
MaxPlaylists == 2
\* the number of entries the remote services put on one page of a listing
PageSize == 1

(***************************************************************************)
(* Python values.                                                          *)
(***************************************************************************)
None == "None"

\* {} : the empty dict
EmptyDict == [k \in {} |-> None]

\* DictSet with the fault of rebinding the dict to {k: v}
DictReplace(d, k, v) == [x \in {k} |-> v]

\* d[k] = v on a dict
DictSet(d, k, v) == [x \in (DOMAIN d) \cup {k} |-> IF x = k THEN v ELSE d[x]]

\* SetAdd with the fault of adding nothing
SetAddNothing(s, x) == s

\* s.add(x) on a set
SetAdd(s, x) == s \cup {x}

\* the elements of a list, as a set
Range(s) == {s[k] : k \in 1..Len(s)}

Min(a, b) == IF a < b THEN a ELSE b

RECURSIVE Pow2(_)
\* 2 ** n
Pow2(n) == IF n = 0 THEN 1 ELSE 2 * Pow2(n - 1)

(***************************************************************************)
(* The remote world.                                                       *)
(***************************************************************************)
\* HTTP statuses a failing call of the YouTube client carries: the five the
\* program treats as transient, and three others
TransientStatuses == {403, 409, 429, 500, 503}
FatalStatuses == {400, 401, 404}
HttpStatuses == TransientStatuses \cup FatalStatuses

\* track descriptors of the source catalogue
SongA == <<"Song", "A", "ArtistX">>
SongB == <<"Song", "B", "ArtistY">>
SongC == <<"Song", "C", "ArtistZ">>
SongD == <<"Song", "D", "ArtistX">>

\* a playlist item of Spotify; item['track'] is a list of one track, or
\* the empty list for the None of a removed track
Item(name, artist) == [track |-> << [name |-> name, artists |-> <<[name |-> artist]>>] >>]
NoTrack == [track |-> << >>]

\* the source playlists by id: p1 and p2 share the name "Mix"
SpotifyPlaylists ==
    [p \in {"p1", "p2", "p3"} |->
        CASE p = "p1" ->
             [name |-> <<"Mix">>,
              items |-> << Item(<<"Song", "A">>, <<"ArtistX">>),
                           NoTrack,
                           Item(<<"Song", "B">>, <<"ArtistY">>) >>]
          [] p = "p2" ->
             [name |-> <<"Mix">>,
              items |-> << Item(<<"Song", "C">>, <<"ArtistZ">>),
                           Item(<<"Song", "D">>, <<"ArtistX">>),
                           Item(<<"Song", "D">>, <<"ArtistX">>) >>]
          [] OTHER ->
             [name |-> <<"Gym">>,
              items |-> << Item(<<"Song", "B">>, <<"ArtistY">>) >>]]

\* a search result: the video, and the score fuzz.token_set_ratio gives its
\* title against the query
Hit(v, s) == [videoId |-> v, score |-> s]

\* what the destination's search returns for a query (at most 5 results):
\* SongA and SongB resolve to the same video, SongC has no result, SongD has
\* one result of score 0 and one above
YouTubeSearch(q) ==
    CASE q = SongA -> << Hit("v1", 70), Hit("v2", 85), Hit("v3", 85), Hit("v1", 60) >>
      [] q = SongB -> << Hit("v2", 90) >>
      [] q = SongD -> << Hit("v3", 0), Hit("v1", 40) >>
      [] OTHER -> << >>

\* a destination playlist; created is TRUE for one the run created
Playlist(id, title, items) ==
    [id |-> id, title |-> title, items |-> items, created |-> FALSE]

\* the ids the destination gives its playlists, in the order it gives them
PlaylistIds == << "PL1", "PL2", "PL3", "PL4", "PL5", "PL6", "PL7", "PL8" >>

\* the caller's destination playlists before the run, in listing order
InitialYouTube ==
    { << >>,
      << Playlist("PL1", <<"Gym">>, <<"v3">>) >>,
      << Playlist("PL1", <<"Mix">>, <<"v1", "v2">>), Playlist("PL2", <<"Mix">>, << >>) >> }

\* a file: exists is FALSE when there is none; members are the key/value
\* pairs of the JSON object it holds
File(exists, members) == [exists |-> exists, members |-> members]

\* the cache file before the run; its entry of SongA is a video the search
\* no longer ranks first
InitialCacheFiles ==
    { File(FALSE, {}), File(TRUE, {}), File(TRUE, { <<SongA, "v9">> }) }

\* one page of a remote listing: the entries after offset, and the token of
\* the next page (<< >> on the last page); the first page has offset 0
Page(all, offset) ==
    [items |-> SubSeq(all, offset + 1, Min(offset + PageSize, Len(all))),
     next  |-> IF offset + PageSize < Len(all) THEN << offset + PageSize >> ELSE << >>]

(***************************************************************************)
(* The cache file (load_cache, save_cache).                                *)
(***************************************************************************)
\* json.load: the dict of a JSON object's members
JsonLoad(members) ==
    [k \in {m[1] : m \in members} |-> (CHOOSE m \in members : m[1] = k)[2]]

\* json.dump: the members of the JSON object of a dict
JsonDump(d) == {<<k, d[k]>> : k \in DOMAIN d}

\* load_cache(): the file's dict, {} when there is no file
load_cache(file) == IF file.exists THEN JsonLoad(file.members) ELSE EmptyDict

\* save_cache with the fault of dumping an empty dict
save_cache_empty(d) == File(TRUE, {})

\* save_cache(cache): the file after open(CACHE_FILE, 'w') and json.dump
save_cache(d) == File(TRUE, JsonDump(d))

\* FailureLine with the fault of the two arguments exchanged
FailureLineSwapped(track, name) == <<"[">> \o track \o <<"]">> \o name \o <<"\n">>

\* log_failed_track: the line f'[{playlist_name}] {track}\n'
FailureLine(track, name) == <<"[">> \o name \o <<"]">> \o track \o <<"\n">>

(***************************************************************************)
(* get_spotify_tracks.                                                     *)
(***************************************************************************)
RECURSIVE PageTracks(_, _, _)
\* the for loop over results['items']: the descriptors f"{name} {artist}" of
\* the items from the k-th on whose track is not None, appended to acc
PageTracks(items, k, acc) ==
    IF k > Len(items) THEN acc
    ELSE LET track == items[k].track IN
         IF track # << >>
         THEN PageTracks(items, k + 1,
                         Append(acc, track[1].name \o track[1].artists[1].name))
         ELSE PageTracks(items, k + 1, acc)

RECURSIVE TracksLoopPrepend(_, _, _)
\* TracksLoop with the fault of putting each page before the pages read so far
TracksLoopPrepend(all, results, acc) ==
    LET got == PageTracks(results.items, 1, << >>) \o acc IN
    IF results.next # << >>
    THEN TracksLoopPrepend(all, Page(all, results.next[1]), got)
    ELSE got

RECURSIVE TracksLoop(_, _, _)
\* the while loop over the pages of sp.playlist_tracks
TracksLoop(all, results, acc) ==
    LET got == PageTracks(results.items, 1, acc) IN
    IF results.next # << >>
    THEN TracksLoop(all, Page(all, results.next[1]), got)
    ELSE got

\* get_spotify_tracks(sp, playlist_id): <<playlist_name, tracks>>
get_spotify_tracks(playlist_id) ==
    LET info == SpotifyPlaylists[playlist_id] IN
    << info.name, TracksLoop(info.items, Page(info.items, 0), << >>) >>

(***************************************************************************)
(* The destination's playlists.                                            *)
(***************************************************************************)
RECURSIVE FirstTitled(_, _, _)
\* the for loop over response['items']: the id of the first item from the
\* k-th on whose title is name, None when there is none
FirstTitled(items, name, k) ==
    IF k > Len(items) THEN None
    ELSE IF items[k].title = name THEN items[k].id
    ELSE FirstTitled(items, name, k + 1)

\* PlaylistByNameLoop with the fault of reading the first page only
PlaylistByNameFirstPage(all, name, response) == FirstTitled(response.items, name, 1)

RECURSIVE PlaylistByNameLoop(_, _, _)
\* the while loop over the pages of youtube.playlists().list(mine=True)
PlaylistByNameLoop(all, name, response) ==
    LET found == FirstTitled(response.items, name, 1) IN
    IF found # None THEN found
    ELSE IF response.next # << >>
         THEN PlaylistByNameLoop(all, name, Page(all, response.next[1]))
         ELSE None

\* get_youtube_playlist_by_name(youtube, name)
get_youtube_playlist_by_name(yt, name) == PlaylistByNameLoop(yt, name, Page(yt, 0))

\* the destination after playlists().insert of a playlist titled title
create_youtube_playlist(yt, title) ==
    Append(yt, [id |-> PlaylistIds[Len(yt) + 1], title |-> title,
                items |-> << >>, created |-> TRUE])

\* the index in yt of the playlist with this id
IndexOfId(yt, id) == CHOOSE k \in 1..Len(yt) : yt[k].id = id

\* VideoIdsLoop with the fault of reading the first page only
VideoIdsFirstPage(all, response, video_ids) == video_ids \cup Range(response.items)

RECURSIVE VideoIdsLoop(_, _, _)
\* the while True loop over the pages of playlistItems().list: every page's
\* video ids are added, until a page carries no nextPageToken
VideoIdsLoop(all, response, video_ids) ==
    LET got == video_ids \cup Range(response.items) IN
    IF response.next # << >>
    THEN VideoIdsLoop(all, Page(all, response.next[1]), got)
    ELSE got

\* get_video_ids_in_playlist(youtube, playlist_id)
get_video_ids_in_playlist(yt, id) ==
    LET all == yt[IndexOfId(yt, id)].items IN VideoIdsLoop(all, Page(all, 0), {})

\* InsertItem with the fault of replacing the playlist's items
InsertItemReplacing(yt, id, v) ==
    [yt EXCEPT ![IndexOfId(yt, id)].items = << v >>]

\* the destination after playlistItems().insert of video_id into playlist id
InsertItem(yt, id, v) ==
    [yt EXCEPT ![IndexOfId(yt, id)].items = Append(@, v)]

(***************************************************************************)
(* fuzzy_search_youtube: the choice among the search results.              *)
(***************************************************************************)
RECURSIVE BestLoopGe(_, _, _, _)
\* BestLoop with the fault of the comparison score >= best_score
BestLoopGe(items, k, best_score, best_video_id) ==
    IF k > Len(items) THEN best_video_id
    ELSE IF items[k].score >= best_score
         THEN BestLoopGe(items, k + 1, items[k].score, items[k].videoId)
         ELSE BestLoopGe(items, k + 1, best_score, best_video_id)

RECURSIVE BestLoop(_, _, _, _)
\* the for loop over response['items'] from the k-th item on, entered with
\* best_score and best_video_id: the final best_video_id
BestLoop(items, k, best_score, best_video_id) ==
    IF k > Len(items) THEN best_video_id
    ELSE IF items[k].score > best_score
         THEN BestLoop(items, k + 1, items[k].score, items[k].videoId)
         ELSE BestLoop(items, k + 1, best_score, best_video_id)

\* best_video_id after the loop, entered with best_score = 0 and None
BestVideoId(items) == BestLoop(items, 1, 0, None)

\* CacheHit with the fault of never finding the title
CacheNeverHit(d, original_title) == FALSE

\* a test that takes every value, None included, for a match
AlwaysTruthy(v) == TRUE

\* if best_video_id / if not video_id: an id is true, None is not
Truthy(v) == v # None

\* a membership test that never finds the id
IsDuplicateNever(v, existing) == FALSE

\* if video_id in existing_video_ids
IsDuplicate(v, existing) == v \in existing

\* if original_title in cache
CacheHit(d, original_title) == original_title \in DOMAIN d

(***************************************************************************)
(* retry.                                                                  *)
(***************************************************************************)
max_retries == 5

\* IsTransient with the fault of listing 404 too
IsTransientOr404(status) == status \in {403, 404, 409, 429, 500, 503}

\* e.resp.status in [403, 409, 429, 500, 503]
IsTransient(status) == status \in {403, 409, 429, 500, 503}

\* a backoff that grows by one time unit per attempt
SleepLinear(n) == n + 1

\* sleep_time = 2 ** attempt
SleepTime(n) == Pow2(n)

(***************************************************************************)
(* Exceptions.                                                             *)
(***************************************************************************)
Exc(kind, status) == [kind |-> kind, status |-> status]
NoError == Exc("None", 200)

\* Catches with the fault of the clause except HttpError
CatchesHttpErrorOnly(e) == e.kind = "HttpError"

\* a loop body without the try statement: no exception is caught
CatchesNothing(e) == FALSE

\* an except clause for the errors of the two remote services only
CatchesRemoteErrorsOnly(e) == e.kind \in {"HttpError", "SpotifyException"}

\* except Exception: every exception of the run is caught (HttpError and
\* SpotifyException of the remote calls, AttributeError of None.execute())
Catches(e) == e.kind \in {"HttpError", "SpotifyException", "AttributeError"}

(***************************************************************************)
(* The input line.                                                         *)
(***************************************************************************)
\* a field of the line between two commas: its text, and whether blanks
\* surround the text
Field(text, padded) == [text |-> text, padded |-> padded]
Fields == { Field(x, b) : x \in {"p1", "p2", "p3", ""}, b \in BOOLEAN }

\* p.strip()
Strip(f) == f.text

RECURSIVE ParseFields(_, _, _)
\* [p.strip() for p in playlist_ids if p.strip()], from the k-th field on
ParseFields(fields, k, acc) ==
    IF k > Len(fields) THEN acc
    ELSE IF Strip(fields[k]) # ""
         THEN ParseFields(fields, k + 1, Append(acc, Strip(fields[k])))
         ELSE ParseFields(fields, k + 1, acc)

\* the lines the user may enter: input(...).split(',') has one field at least
InputLines == UNION { [1..n -> Fields] : n \in 1..MaxPlaylists }

(***************************************************************************)
(* The state.                                                              *)
(***************************************************************************)
VARIABLES
    pc,                  \* the position of the run
    cache_file,          \* video_cache.json
    failed_tracks,       \* failed_tracks.txt, a list of lines
    youtube,             \* the caller's destination playlists
    cache,               \* __main__: cache
    playlist_ids,        \* __main__: playlist_ids
    i,                   \* __main__: the index of pid in playlist_ids
    err,                 \* the exception in flight, NoError when none
    spotify_playlist_id, \* convert_playlist: its argument
    playlist_name,       \* convert_playlist
    tracks,              \* convert_playlist
    yt_playlist_id,      \* convert_playlist
    existing_video_ids,  \* convert_playlist
    t,                   \* convert_playlist: the index of track in tracks
    video_id,            \* convert_playlist
    r_state,             \* retry: "idle", "loop", "returned" or "raised"
    r_value,             \* retry: the value returned
    attempt,             \* retry: attempt
    slept,               \* retry: the sleep_time of every time.sleep, in order
    calls,               \* retry: the number of invocations of func
    last,                \* retry: the outcome of the last invocation of func
    \* what the run has done so far (observations, read by no action)
    loaded,              \* the dict load_cache returned
    loads,               \* the number of calls of load_cache
    saves,               \* the number of calls of save_cache
    converted,           \* the arguments of the calls of convert_playlist
    completed,           \* the playlist ids whose convert_playlist returned
    yt_before,           \* youtube when the current convert_playlist began
    listed,              \* the ids get_video_ids_in_playlist returned
    inserted,            \* the ids inserted by the current convert_playlist
    searches,            \* the number of search requests executed
    stored,              \* the <<title, id>> fuzzy_search_youtube put in the cache
    response,            \* fuzzy_search_youtube: response['items']
    failed_before,       \* failed_tracks when the current convert_playlist began
    answered,            \* the queries of the search requests that were answered
    scored               \* the response['items'] fuzzy_search_youtube scored last

main_vars == << pc, cache_file, failed_tracks, youtube, cache, playlist_ids, i, err >>
convert_vars == << spotify_playlist_id, playlist_name, tracks, yt_playlist_id,
                   existing_video_ids, t, video_id >>
retry_vars == << r_state, r_value, attempt, slept, calls, last >>
seen_vars == << loaded, loads, saves, converted, completed, yt_before, listed,
                inserted, searches, stored >>
search_vars == << response >>
log_vars == << failed_before, answered, scored >>
vars == << main_vars, convert_vars, retry_vars, seen_vars, search_vars, log_vars >>

\* the outcome of a remote call: 200, or the status of the HttpError
Outcomes == {200} \cup HttpStatuses

\* no call of retry is active
RetryIdle ==
    /\ r_state = "idle" /\ r_value = None /\ attempt = 0
    /\ slept = << >> /\ calls = 0 /\ last = 200

\* no call of convert_playlist is active
ConvertIdle ==
    /\ spotify_playlist_id = None /\ playlist_name = << >> /\ tracks = << >>
    /\ yt_playlist_id = None /\ existing_video_ids = {} /\ t = 0
    /\ video_id = None

Init ==
    /\ pc = "start"
    /\ cache_file \in InitialCacheFiles
    /\ youtube \in InitialYouTube
    /\ failed_tracks = << >>
    /\ cache = EmptyDict
    /\ playlist_ids = << >>
    /\ i = 0
    /\ err = NoError
    /\ ConvertIdle
    /\ RetryIdle
    /\ loaded = EmptyDict /\ loads = 0 /\ saves = 0
    /\ converted = << >> /\ completed = {} /\ yt_before = << >>
    /\ listed = {} /\ inserted = << >> /\ searches = 0 /\ stored = {}
    /\ response = << >>
    /\ failed_before = << >> /\ answered = << >> /\ scored = << >>

(***************************************************************************)
(* Steps shared by the actions.                                            *)
(***************************************************************************)
\* the locals of a call that has ended
ResetRetry ==
    /\ r_state' = "idle" /\ r_value' = None /\ attempt' = 0
    /\ slept' = << >> /\ calls' = 0 /\ last' = 200

ResetConvert ==
    /\ spotify_playlist_id' = None /\ playlist_name' = << >> /\ tracks' = << >>
    /\ yt_playlist_id' = None /\ existing_video_ids' = {} /\ t' = 0
    /\ video_id' = None

\* retry(func, ...) is entered
EnterRetry ==
    /\ r_state' = "loop" /\ r_value' = None /\ attempt' = 0
    /\ slept' = << >> /\ calls' = 0 /\ last' = 200

\* an exception leaves convert_playlist
Raise(e) ==
    /\ err' = e
    /\ pc' = "except"

(***************************************************************************)
(* __main__.                                                               *)
(***************************************************************************)
\* cache = load_cache()
LoadCache ==
    /\ pc = "start"
    /\ cache' = load_cache(cache_file)
    /\ loaded' = load_cache(cache_file)
    /\ loads' = loads + 1
    /\ pc' = "input"
    /\ UNCHANGED << cache_file, failed_tracks, youtube, playlist_ids, i, err >>
    /\ UNCHANGED << convert_vars, retry_vars >>
    /\ UNCHANGED << saves, converted, completed, yt_before, listed, inserted, searches, stored >>
    /\ UNCHANGED << search_vars, log_vars >>

\* playlist_ids = input(...).split(','), stripped and filtered
ReadInput ==
    /\ pc = "input"
    /\ \E line \in InputLines : playlist_ids' = ParseFields(line, 1, << >>)
    /\ i' = 1
    /\ pc' = "loop"
    /\ UNCHANGED << cache_file, failed_tracks, youtube, cache, err >>
    /\ UNCHANGED << convert_vars, retry_vars, seen_vars >>
    /\ UNCHANGED << search_vars, log_vars >>

\* for pid in playlist_ids: convert_playlist(sp, youtube, pid, cache)
CallConvert ==
    /\ pc = "loop"
    /\ i <= Len(playlist_ids)
    /\ spotify_playlist_id' = playlist_ids[i]
    /\ converted' = Append(converted, playlist_ids[i])
    /\ yt_before' = youtube
    /\ failed_before' = failed_tracks
    /\ listed' = {}
    /\ inserted' = << >>
    /\ pc' = "convert"
    /\ UNCHANGED << cache_file, failed_tracks, youtube, cache, playlist_ids, i, err >>
    /\ UNCHANGED << playlist_name, tracks, yt_playlist_id, existing_video_ids, t, video_id >>
    /\ UNCHANGED << retry_vars, loaded, loads, saves, completed, searches, stored >>
    /\ UNCHANGED << search_vars, answered, scored >>

\* except Exception as e: the error is printed and the loop goes on; an
\* exception the clause does not catch ends the process
CatchError ==
    /\ pc = "except"
    /\ IF Catches(err)
       THEN /\ pc' = "loop"
            /\ i' = i + 1
            /\ err' = NoError
            /\ ResetConvert
       ELSE /\ pc' = "crashed"
            /\ UNCHANGED << i, err, convert_vars >>
    /\ UNCHANGED << cache_file, failed_tracks, youtube, cache, playlist_ids >>
    /\ UNCHANGED << retry_vars, seen_vars >>
    /\ UNCHANGED << search_vars, log_vars >>

\* save_cache(cache), after the loop
SaveCache ==
    /\ pc = "loop"
    /\ i > Len(playlist_ids)
    /\ cache_file' = save_cache(cache)
    /\ saves' = saves + 1
    /\ pc' = "done"
    /\ UNCHANGED << failed_tracks, youtube, cache, playlist_ids, i, err >>
    /\ UNCHANGED << convert_vars, retry_vars >>
    /\ UNCHANGED << loaded, loads, converted, completed, yt_before, listed, inserted, searches, stored >>
    /\ UNCHANGED << search_vars, log_vars >>

(***************************************************************************)
(* convert_playlist.                                                       *)
(***************************************************************************)
\* playlist_name, tracks = get_spotify_tracks(sp, spotify_playlist_id)
GetSpotifyTracks ==
    /\ pc = "convert"
    /\ \E ok \in BOOLEAN :
        IF ok
        THEN /\ playlist_name' = get_spotify_tracks(spotify_playlist_id)[1]
             /\ tracks' = get_spotify_tracks(spotify_playlist_id)[2]
             /\ pc' = "find"
             /\ UNCHANGED err
        ELSE /\ Raise(Exc("SpotifyException", 404))
             /\ UNCHANGED << playlist_name, tracks >>
    /\ UNCHANGED << cache_file, failed_tracks, youtube, cache, playlist_ids, i >>
    /\ UNCHANGED << spotify_playlist_id, yt_playlist_id, existing_video_ids, t, video_id >>
    /\ UNCHANGED << retry_vars, seen_vars >>
    /\ UNCHANGED << search_vars, log_vars >>

\* yt_playlist_id = get_youtube_playlist_by_name(youtube, playlist_name),
\* and the test of it
FindPlaylist ==
    /\ pc = "find"
    /\ \E outcome \in Outcomes :
        IF outcome = 200
        THEN /\ yt_playlist_id' = get_youtube_playlist_by_name(youtube, playlist_name)
             /\ pc' = IF yt_playlist_id' # None THEN "enum" ELSE "create"
             /\ UNCHANGED err
        ELSE /\ Raise(Exc("HttpError", outcome))
             /\ UNCHANGED yt_playlist_id
    /\ UNCHANGED << cache_file, failed_tracks, youtube, cache, playlist_ids, i >>
    /\ UNCHANGED << spotify_playlist_id, playlist_name, tracks, existing_video_ids, t, video_id >>
    /\ UNCHANGED << retry_vars, seen_vars >>
    /\ UNCHANGED << search_vars, log_vars >>

\* yt_playlist_id = create_youtube_playlist(youtube, playlist_name)
CreatePlaylist ==
    /\ pc = "create"
    /\ \E outcome \in Outcomes :
        IF outcome = 200
        THEN /\ youtube' = create_youtube_playlist(youtube, playlist_name)
             /\ yt_playlist_id' = youtube'[Len(youtube')].id
             /\ pc' = "enum"
             /\ UNCHANGED err
        ELSE /\ Raise(Exc("HttpError", outcome))
             /\ UNCHANGED << youtube, yt_playlist_id >>
    /\ UNCHANGED << cache_file, failed_tracks, cache, playlist_ids, i >>
    /\ UNCHANGED << spotify_playlist_id, playlist_name, tracks, existing_video_ids, t, video_id >>
    /\ UNCHANGED << retry_vars, seen_vars >>
    /\ UNCHANGED << search_vars, log_vars >>

\* existing_video_ids = get_video_ids_in_playlist(youtube, yt_playlist_id)
GetVideoIds ==
    /\ pc = "enum"
    /\ \E outcome \in Outcomes :
        IF outcome = 200
        THEN /\ existing_video_ids' = get_video_ids_in_playlist(youtube, yt_playlist_id)
             /\ listed' = existing_video_ids'
             /\ t' = 1
             /\ pc' = "track"
             /\ UNCHANGED err
        ELSE /\ Raise(Exc("HttpError", outcome))
             /\ UNCHANGED << existing_video_ids, listed, t >>
    /\ UNCHANGED << cache_file, failed_tracks, youtube, cache, playlist_ids, i >>
    /\ UNCHANGED << spotify_playlist_id, playlist_name, tracks, yt_playlist_id, video_id >>
    /\ UNCHANGED << retry_vars >>
    /\ UNCHANGED << loaded, loads, saves, converted, completed, yt_before, inserted, searches, stored >>
    /\ UNCHANGED << search_vars, log_vars >>

\* for track in tracks: video_id = fuzzy_search_youtube(youtube, track, track,
\* cache), up to its call of retry: a cached title returns at once
ResolveTrack ==
    /\ pc = "track"
    /\ t <= Len(tracks)
    /\ IF CacheHit(cache, tracks[t])
       THEN /\ video_id' = cache[tracks[t]]
            /\ pc' = "check"
            /\ UNCHANGED retry_vars
       ELSE /\ EnterRetry
            /\ pc' = "search"
            /\ UNCHANGED video_id
    /\ UNCHANGED << cache_file, failed_tracks, youtube, cache, playlist_ids, i, err >>
    /\ UNCHANGED << spotify_playlist_id, playlist_name, tracks, yt_playlist_id,
                    existing_video_ids, t >>
    /\ UNCHANGED seen_vars
    /\ UNCHANGED << search_vars, log_vars >>

\* the for loop is over: convert_playlist returns to the loop of __main__
ConvertReturn ==
    /\ pc = "track"
    /\ t > Len(tracks)
    /\ completed' = completed \cup {spotify_playlist_id}
    /\ ResetConvert
    /\ i' = i + 1
    /\ pc' = "loop"
    /\ UNCHANGED << cache_file, failed_tracks, youtube, cache, playlist_ids, err >>
    /\ UNCHANGED retry_vars
    /\ UNCHANGED << loaded, loads, saves, converted, yt_before, listed, inserted, searches, stored >>
    /\ UNCHANGED << search_vars, log_vars >>

\* retry: one pass of the for loop; func is youtube.search().list or
\* youtube.playlistItems().insert, which returns a request or raises
RetryAttempt ==
    /\ pc \in {"search", "insert"}
    /\ r_state = "loop"
    /\ attempt < max_retries
    /\ \E outcome \in Outcomes :
        /\ calls' = calls + 1
        /\ last' = outcome
        /\ IF outcome = 200
           THEN /\ r_state' = "returned"
                /\ r_value' = "request"
                /\ UNCHANGED << attempt, slept >>
           ELSE IF IsTransient(outcome)
                THEN /\ slept' = Append(slept, SleepTime(attempt))
                     /\ attempt' = attempt + 1
                     /\ UNCHANGED << r_state, r_value >>
                ELSE /\ r_state' = "raised"
                     /\ UNCHANGED << r_value, attempt, slept >>
    /\ UNCHANGED << main_vars, convert_vars, seen_vars >>
    /\ UNCHANGED << search_vars, log_vars >>

\* retry: range(max_retries) is used up; the function ends without a return
\* statement, which returns None
RetryFallThrough ==
    /\ pc \in {"search", "insert"}
    /\ r_state = "loop"
    /\ attempt >= max_retries
    /\ r_state' = "returned"
    /\ r_value' = None
    /\ UNCHANGED << attempt, slept, calls, last >>
    /\ UNCHANGED << main_vars, convert_vars, seen_vars >>
    /\ UNCHANGED << search_vars, log_vars >>

\* retry re-raised the HttpError: it leaves fuzzy_search_youtube or
\* add_to_youtube_playlist, and convert_playlist
RetryRaised ==
    /\ pc \in {"search", "insert"}
    /\ r_state = "raised"
    /\ Raise(Exc("HttpError", last))
    /\ ResetRetry
    /\ UNCHANGED << cache_file, failed_tracks, youtube, cache, playlist_ids, i >>
    /\ UNCHANGED << convert_vars, seen_vars >>
    /\ UNCHANGED << search_vars, log_vars >>

\* fuzzy_search_youtube after retry: .execute() on what retry returned
SearchExecute ==
    /\ pc = "search"
    /\ r_state = "returned"
    /\ IF r_value = None
       THEN /\ Raise(Exc("AttributeError", 200))
            /\ UNCHANGED << searches, response, answered >>
       ELSE \E outcome \in Outcomes :
            /\ searches' = searches + 1
            /\ IF outcome = 200
               THEN /\ response' = YouTubeSearch(tracks[t])
                    /\ answered' = Append(answered, tracks[t])
                    /\ pc' = "score"
                    /\ UNCHANGED err
               ELSE /\ Raise(Exc("HttpError", outcome))
                    /\ UNCHANGED << response, answered >>
    /\ ResetRetry
    /\ UNCHANGED << cache_file, failed_tracks, youtube, cache, playlist_ids, i >>
    /\ UNCHANGED << convert_vars, failed_before, scored >>
    /\ UNCHANGED << loaded, loads, saves, converted, completed, yt_before, listed,
                    inserted, stored >>

\* fuzzy_search_youtube after the search: the choice of the best result, the
\* store into the cache, and the return
ScoreResults ==
    /\ pc = "score"
    /\ LET best_video_id == BestVideoId(response) IN
        /\ cache' = IF Truthy(best_video_id)
                    THEN DictSet(cache, tracks[t], best_video_id)
                    ELSE cache
        /\ stored' = IF Truthy(best_video_id)
                     THEN stored \cup {<<tracks[t], best_video_id>>}
                     ELSE stored
        /\ video_id' = best_video_id
    /\ scored' = response
    /\ response' = << >>
    /\ pc' = "check"
    /\ UNCHANGED << cache_file, failed_tracks, youtube, playlist_ids, i, err >>
    /\ UNCHANGED << spotify_playlist_id, playlist_name, tracks, yt_playlist_id,
                    existing_video_ids, t >>
    /\ UNCHANGED << retry_vars, failed_before, answered >>
    /\ UNCHANGED << loaded, loads, saves, converted, completed, yt_before, listed,
                    inserted, searches >>

\* the body of the for loop after the search: the failure record, the
\* duplicate check, and add_to_youtube_playlist up to its call of retry
CheckTrack ==
    /\ pc = "check"
    /\ IF ~Truthy(video_id)
       THEN /\ failed_tracks' = Append(failed_tracks, FailureLine(tracks[t], playlist_name))
            /\ t' = t + 1
            /\ video_id' = None
            /\ pc' = "track"
            /\ UNCHANGED retry_vars
       ELSE IF IsDuplicate(video_id, existing_video_ids)
            THEN /\ t' = t + 1
                 /\ video_id' = None
                 /\ pc' = "track"
                 /\ UNCHANGED << failed_tracks, retry_vars >>
            ELSE /\ EnterRetry
                 /\ pc' = "insert"
                 /\ UNCHANGED << failed_tracks, t, video_id >>
    /\ UNCHANGED << cache_file, youtube, cache, playlist_ids, i, err >>
    /\ UNCHANGED << spotify_playlist_id, playlist_name, tracks, yt_playlist_id,
                    existing_video_ids >>
    /\ UNCHANGED seen_vars
    /\ UNCHANGED << search_vars, log_vars >>

\* add_to_youtube_playlist after retry: .execute() on what retry returned,
\* then existing_video_ids.add(video_id)
InsertExecute ==
    /\ pc = "insert"
    /\ r_state = "returned"
    /\ IF r_value = None
       THEN /\ Raise(Exc("AttributeError", 200))
            /\ UNCHANGED << youtube, existing_video_ids, t, video_id, inserted >>
       ELSE \E outcome \in Outcomes :
            IF outcome = 200
            THEN /\ youtube' = InsertItem(youtube, yt_playlist_id, video_id)
                 /\ existing_video_ids' = SetAdd(existing_video_ids, video_id)
                 /\ inserted' = Append(inserted, video_id)
                 /\ t' = t + 1
                 /\ video_id' = None
                 /\ pc' = "track"
                 /\ UNCHANGED err
            ELSE /\ Raise(Exc("HttpError", outcome))
                 /\ UNCHANGED << youtube, existing_video_ids, t, video_id, inserted >>
    /\ ResetRetry
    /\ UNCHANGED << cache_file, failed_tracks, cache, playlist_ids, i >>
    /\ UNCHANGED << spotify_playlist_id, playlist_name, tracks, yt_playlist_id >>
    /\ UNCHANGED << loaded, loads, saves, converted, completed, yt_before, listed, searches, stored >>
    /\ UNCHANGED << search_vars, log_vars >>

Next ==
    \/ LoadCache
    \/ ReadInput
    \/ CallConvert
    \/ CatchError
    \/ SaveCache
    \/ GetSpotifyTracks
    \/ FindPlaylist
    \/ CreatePlaylist
    \/ GetVideoIds
    \/ ResolveTrack
    \/ ConvertReturn
    \/ RetryAttempt
    \/ RetryFallThrough
    \/ RetryRaised
    \/ SearchExecute
    \/ ScoreResults
    \/ CheckTrack
    \/ InsertExecute

Spec == Init /\ [][Next]_vars

\* the run of a sequential process: a statement that can execute does
FairSpec == Spec /\ WF_vars(Next)

(***************************************************************************)
(* The matcher on any response: fuzzy_search_youtube from the answer of    *)
(* the search on, and the body of the for loop that follows it.            *)
(***************************************************************************)
\* the most results a response holds in the model (the request asks for 5)
MaxCandidates == 4

\* the scores fuzz.token_set_ratio gives in the model, of its 0..100
Scores == {0, 60, 70, 85, 100}

\* the videos of a response, by rank
CandidateIds == << "c1", "c2", "c3", "c4", "c5", "c6" >>

\* every response of at most MaxCandidates results
Responses ==
    UNION { { [k \in 1..n |-> Hit(CandidateIds[k], sc[k])] : sc \in [1..n -> Scores] } :
            n \in 0..MaxCandidates }

\* convert_playlist of p1 has received the answer to the search for its
\* first track, which is not in the cache; the destination playlist "Mix"
\* exists, empty or holding the second-ranked video
MatchInit ==
    /\ pc = "score"
    /\ response \in Responses
    /\ cache_file = File(FALSE, {})
    /\ \E items \in {<< >>, << "c2" >>} :
        /\ youtube = << Playlist("PL1", <<"Mix">>, items) >>
        /\ existing_video_ids = Range(items)
    /\ listed = existing_video_ids
    /\ yt_before = youtube
    /\ failed_tracks = << >>
    /\ cache = EmptyDict
    /\ playlist_ids = << "p1" >>
    /\ i = 1
    /\ err = NoError
    /\ spotify_playlist_id = "p1"
    /\ playlist_name = get_spotify_tracks("p1")[1]
    /\ tracks = get_spotify_tracks("p1")[2]
    /\ yt_playlist_id = "PL1"
    /\ t = 1
    /\ video_id = None
    /\ RetryIdle
    /\ loaded = EmptyDict /\ loads = 1 /\ saves = 0
    /\ converted = << "p1" >> /\ completed = {}
    /\ inserted = << >> /\ searches = 1 /\ stored = {}
    /\ failed_before = << >> /\ answered = << tracks[1] >> /\ scored = << >>

MatchNext ==
    \/ ScoreResults
    \/ CheckTrack

MatchSpec == MatchInit /\ [][MatchNext]_vars

(***************************************************************************)
(* Properties.                                                             *)
(***************************************************************************)
\* a call of convert_playlist is active
Converting == pc \in {"convert", "find", "create", "enum", "track", "search",
                      "score", "check", "insert"}

\* the for loop over tracks of convert_playlist is active
InTrackLoop == pc \in {"track", "search", "score", "check", "insert"}

\* a call of retry is active or has just ended
RetryEnded == r_state \in {"returned", "raised"}

\* the number of occurrences of x in the list s
Count(s, x) == Cardinality({k \in 1..Len(s) : s[k] = x})

\* the items of the destination playlist id in the destination yt, << >>
\* when yt has no such playlist
ItemsOf(yt, id) ==
    IF \E k \in 1..Len(yt) : yt[k].id = id THEN yt[IndexOfId(yt, id)].items ELSE << >>

\* C1: a call of convert_playlist for a source playlist whose conversion has
\* completed earlier in the run creates no playlist, issues no insert call
\* and leaves the destination as it found it, and no id its tracks resolve to
\* occurs twice in the destination playlist.
IdempotentRerun ==
    (Converting /\ spotify_playlist_id \in completed) =>
        /\ pc \notin {"create", "insert"}
        /\ inserted = << >>
        /\ youtube = yt_before
        /\ InTrackLoop =>
             \A k \in 1..Len(tracks) :
                tracks[k] \in DOMAIN cache =>
                    Count(ItemsOf(youtube, yt_playlist_id), cache[tracks[k]]) = 1

\* C1: the second conversion of a source playlist is about to return, into a
\* playlist the run created and filled.
IdempotentRerunWitness ==
    /\ pc = "track" /\ t > Len(tracks)
    /\ spotify_playlist_id \in completed
    /\ \E k \in 1..Len(youtube) :
        /\ youtube[k].id = yt_playlist_id
        /\ youtube[k].created
        /\ youtube[k].items # << >>

\* C2 (as claimed): a call of retry whose every invocation of func failed
\* with a transient status ends after 6 invocations and the sleeps 1, 2, 4,
\* 8, 16 by raising the last failure.
BackoffBoundAsClaimed ==
    (RetryEnded /\ last \in TransientStatuses) =>
        /\ calls = max_retries + 1
        /\ slept = << 1, 2, 4, 8, 16 >>
        /\ r_state = "raised"

\* C3 (as claimed): retry never returns None.
ExhaustionRaisesAsClaimed ==
    r_state = "returned" => r_value # None

\* C4: an invocation of func that fails with a status outside the transient
\* set ends retry at once by raising: it is the last invocation, no sleep
\* follows it (every sleep belongs to a transient failure before it), and the
\* next step hands that same failure to convert_playlist's caller.
NonTransientNotRetried ==
    /\ [](last \in FatalStatuses =>
            /\ r_state = "raised"
            /\ calls = attempt + 1
            /\ Len(slept) = attempt)
    /\ [][r_state = "raised" =>
            /\ err' = Exc("HttpError", last)
            /\ pc' = "except"
            /\ r_state' = "idle"]_vars

\* C4: retry has raised a 404 that followed three transient failures.
NonTransientNotRetriedWitness ==
    /\ r_state = "raised"
    /\ last = 404
    /\ attempt = 3
    /\ slept = << 1, 2, 4 >>

\* C5: the resolution of a track whose descriptor is a key of the cache
\* yields the cached id in one step, without entering retry and without a
\* search request.
CacheShortCircuit ==
    [][(pc = "track" /\ t <= Len(tracks) /\ tracks[t] \in DOMAIN cache) =>
            /\ pc' = "check"
            /\ video_id' = cache[tracks[t]]
            /\ searches' = searches
            /\ r_state' = "idle"
            /\ cache' = cache]_vars

\* C5: the third track of p2 repeats the second: it is resolved from the
\* entry the second stored, after two search requests and not three.
CacheShortCircuitWitness ==
    /\ converted = << "p2" >>
    /\ pc = "check" /\ t = 3
    /\ tracks[t] \notin DOMAIN loaded
    /\ video_id = cache[tracks[t]]
    /\ searches = 2

\* C6: no step changes or removes an entry of the cache.
CacheWriteOnce ==
    [][\A d \in DOMAIN cache : d \in DOMAIN cache' /\ cache'[d] = cache[d]]_vars

\* C6: the run ends with the loaded entry of SongA as it was loaded, although
\* a search would rank another video first, and with entries stored in the run.
CacheWriteOnceWitness ==
    /\ pc = "done"
    /\ SongA \in DOMAIN loaded /\ cache[SongA] = "v9"
    /\ BestVideoId(YouTubeSearch(SongA)) # "v9"
    /\ "p1" \in completed
    /\ stored # {}

\* C7: in the for loop over tracks, existing_video_ids is what
\* get_video_ids_in_playlist returned plus the ids inserted since; the
\* destination playlist holds its former items followed by the ids inserted;
\* no id is inserted twice, and none that was listed.
DuplicateSetConsistent ==
    InTrackLoop =>
        /\ existing_video_ids = listed \cup Range(inserted)
        /\ ItemsOf(youtube, yt_playlist_id) = ItemsOf(yt_before, yt_playlist_id) \o inserted
        /\ \A v \in Range(inserted) : Count(inserted, v) = 1 /\ v \notin listed

\* C7: a duplicate check meets an id inserted earlier in the same reconcile.
DuplicateSetConsistentWitness ==
    /\ pc = "check"
    /\ video_id \in Range(inserted)
    /\ video_id \notin listed

\* C8: convert_playlist has been called once for each id before the current
\* one, in the order of the list, whatever failed; the run never ends
\* otherwise than after the last id.
PerPlaylistIsolation ==
    /\ pc # "crashed"
    /\ (pc = "loop") => (i <= Len(playlist_ids) + 1 /\ converted = SubSeq(playlist_ids, 1, i - 1))
    /\ (Converting \/ pc = "except") => (i <= Len(playlist_ids) /\ converted = SubSeq(playlist_ids, 1, i))
    /\ (pc = "done") => converted = playlist_ids

\* C8: the run is over; the first of two playlists failed and the second
\* was converted.
PerPlaylistIsolationWitness ==
    /\ pc = "done"
    /\ Len(playlist_ids) = 2
    /\ playlist_ids[1] # playlist_ids[2]
    /\ completed = {playlist_ids[2]}

\* C9: load_cache is called once, before anything else; the cache file is
\* not written before the end; at the end save_cache has been called once,
\* after convert_playlist was called for every id, and the file holds every
\* loaded entry and every entry stored in the run.
CacheSavedOnce ==
    /\ (pc = "start") => (loads = 0 /\ saves = 0 /\ converted = << >>)
    /\ (pc # "start") => loads = 1
    /\ (pc \notin {"start", "done"}) => (saves = 0 /\ load_cache(cache_file) = loaded)
    /\ (pc = "done") =>
        /\ saves = 1
        /\ converted = playlist_ids
        /\ cache_file.exists
        /\ \A d \in DOMAIN loaded : <<d, loaded[d]>> \in cache_file.members
        /\ stored \subseteq cache_file.members
        /\ cache_file.members \subseteq JsonDump(loaded) \cup stored

\* C9: the run is over, every playlist failed, and the file holds a match
\* found before a failure.
CacheSavedOnceWitness ==
    /\ pc = "done"
    /\ Len(playlist_ids) = 2
    /\ completed = {}
    /\ stored # {}
    /\ stored \subseteq cache_file.members

\* C10: create_youtube_playlist is about to be called only for a name no
\* destination playlist has, and a playlist the run created has the title
\* of no playlist that was in the destination when it was created
\* (playlists are listed in the order of their creation).
FindOrCreate ==
    /\ (pc = "create") => \A k \in 1..Len(youtube) : youtube[k].title # playlist_name
    /\ \A k \in 1..Len(youtube) :
        youtube[k].created => \A j \in 1..(k - 1) : youtube[j].title # youtube[k].title

\* C10: the second conversion of a name has found the playlist that a failed
\* first conversion created.
FindOrCreateWitness ==
    /\ pc = "enum"
    /\ Len(converted) = 2
    /\ completed = {}
    /\ youtube = yt_before
    /\ \E k \in 1..Len(youtube) : youtube[k].created /\ youtube[k].id = yt_playlist_id

\* the scores of a response, by rank
ScoresOf(items) == [k \in 1..Len(items) |-> items[k].score]

\* the highest score of a response, 0 for an empty one
MaxScore(items) ==
    IF items = << >> THEN 0
    ELSE CHOOSE m \in Range(ScoresOf(items)) : \A k \in 1..Len(items) : items[k].score <= m

\* the rank of the first result that has the highest score
FirstMaxRank(items) ==
    CHOOSE k \in 1..Len(items) :
        /\ items[k].score = MaxScore(items)
        /\ \A j \in 1..(k - 1) : items[j].score < MaxScore(items)

\* C11: when the highest score of the response is above 0, the id returned
\* for the uncached descriptor is the id of the first result that has the
\* highest score.
BestCandidateSelection ==
    (pc = "check" /\ MaxScore(scored) > 0) =>
        video_id = scored[FirstMaxRank(scored)].videoId

\* C11: the scores 70, 85, 85, 60 have selected the second result.
BestCandidateSelectionWitness ==
    /\ pc = "check"
    /\ ScoresOf(scored) = << 70, 85, 85, 60 >>
    /\ video_id = scored[2].videoId
    /\ video_id # scored[3].videoId

\* C12: after a response with no result, or with results of score 0 only,
\* the matcher has returned None; the loop body then writes the one line
\* "[Mix] Song A ArtistX", inserts nothing, raises nothing and goes on to
\* the next track.
NoMatchPath ==
    (pc # "score" /\ MaxScore(scored) = 0) =>
        /\ video_id = None
        /\ pc \in {"check", "track"}
        /\ err = NoError
        /\ r_state = "idle"
        /\ youtube = yt_before /\ inserted = << >> /\ cache = EmptyDict
        /\ (pc = "check") => (t = 1 /\ failed_tracks = << >>)
        /\ (pc = "track") =>
            /\ t = 2
            /\ failed_tracks = << << "[", "Mix", "]", "Song", "A", "ArtistX", "\n" >> >>

\* C12: two results of score 0 have led to the failure record, and the loop
\* is at the next track.
NoMatchPathWitness ==
    /\ pc = "track" /\ t = 2
    /\ ScoresOf(scored) = << 0, 0 >>
    /\ Len(failed_tracks) = 1

\* the id a descriptor resolves to in this run: its loaded cache entry, else
\* the first result of the highest score above 0 of its search, else None
ExpectedId(d) ==
    IF d \in DOMAIN loaded THEN loaded[d]
    ELSE LET items == YouTubeSearch(d) IN
         IF MaxScore(items) > 0 THEN items[FirstMaxRank(items)].videoId ELSE None

\* the descriptors of the source playlist p, in source order
SourceTracks(p) ==
    LET items == SelectSeq(SpotifyPlaylists[p].items, LAMBDA it : it.track # << >>) IN
    [k \in 1..Len(items) |-> items[k].track[1].name \o items[k].track[1].artists[1].name]

\* the tracks of the list ds that resolve to nothing, in order
Unresolved(ds) == SelectSeq(ds, LAMBDA d : ExpectedId(d) = None)

\* the for loop over tracks has ended and convert_playlist is about to return
ReconcileDone == pc = "track" /\ t > Len(tracks)

\* C13: when the for loop of convert_playlist has ended, the destination has
\* a playlist titled as the source playlist, which is the first of that
\* title it had before or else a new one; its items are its former items
\* and the ids the source tracks resolve to; every other playlist is as
\* before; and the failure log has gained one line per unresolved track
\* occurrence, in order, and nothing else.
ReconcileEndState ==
    ReconcileDone =>
        LET name == SpotifyPlaylists[spotify_playlist_id].name
            ds == SourceTracks(spotify_playlist_id)
            un == Unresolved(ds)
            had == \E k \in 1..Len(yt_before) : yt_before[k].title = name
        IN
        /\ \E k \in 1..Len(youtube) :
            /\ youtube[k].id = yt_playlist_id
            /\ youtube[k].title = name
            /\ \A j \in 1..(k - 1) : youtube[j].title # name
            /\ ~had => (k = Len(youtube) /\ youtube[k].created)
            /\ had => (k <= Len(yt_before) /\ yt_before[k].id = yt_playlist_id)
            /\ Range(youtube[k].items) =
                    Range(ItemsOf(yt_before, yt_playlist_id))
                    \cup ({ExpectedId(ds[n]) : n \in 1..Len(ds)} \ {None})
        /\ Len(youtube) = Len(yt_before) + (IF had THEN 0 ELSE 1)
        /\ \A k \in 1..Len(yt_before) :
            yt_before[k].id # yt_playlist_id => youtube[k] = yt_before[k]
        /\ failed_tracks = failed_before \o
                [n \in 1..Len(un) |-> <<"[">> \o name \o <<"]">> \o un[n] \o <<"\n">>]

\* C13: p2 (one unresolved track, one resolved twice) has been reconciled
\* into a destination that had no playlist: there is one new playlist "Mix"
\* of exactly one item, and exactly one new failure line.
ReconcileEndStateWitness ==
    /\ ReconcileDone
    /\ spotify_playlist_id = "p2"
    /\ yt_before = << >>
    /\ Len(youtube) = 1
    /\ youtube[1].title = << "Mix" >> /\ youtube[1].created
    /\ Len(youtube[1].items) = 1
    /\ Len(failed_tracks) = Len(failed_before) + 1

\* C14 (as claimed): a transient HttpError of the search or insert call
\* leaves fuzzy_search_youtube or add_to_youtube_playlist only after retry
\* has used up its attempts, each followed by its backoff sleep.
TransientRetriedAsClaimed ==
    [][(/\ pc \in {"search", "insert"}
        /\ pc' = "except"
        /\ err'.kind = "HttpError"
        /\ err'.status \in TransientStatuses)
       => Len(slept) = max_retries]_vars

\* an insertion call has failed and its exception has left convert_playlist
\* (video_id is bound to an id only between the check and the insertion)
InsertFailed == pc = "except" /\ video_id # None

\* C15: when an insertion call fails, the failure leaves convert_playlist
\* without a change to the destination, the duplicate-detection set or the
\* failure log, the failed id is not in the set, and the items inserted
\* before are in the destination playlist; the except clause then goes on
\* to the next index with no search, insertion or failure record; and the
\* loop converts the playlist id at that index.
InsertFailureAbortsOnePlaylist ==
    /\ [](InsertFailed =>
            /\ video_id \notin existing_video_ids
            /\ video_id \notin Range(ItemsOf(youtube, yt_playlist_id))
            /\ Range(inserted) \subseteq Range(ItemsOf(youtube, yt_playlist_id)))
    /\ [][(pc = "insert" /\ pc' = "except") =>
            /\ youtube' = youtube
            /\ existing_video_ids' = existing_video_ids
            /\ failed_tracks' = failed_tracks
            /\ inserted' = inserted
            /\ video_id' = video_id]_vars
    /\ [][InsertFailed =>
            /\ pc' = "loop"
            /\ i' = i + 1
            /\ youtube' = youtube
            /\ failed_tracks' = failed_tracks
            /\ searches' = searches
            /\ inserted' = inserted]_vars
    /\ [][(pc = "loop" /\ i <= Len(playlist_ids)) =>
            /\ pc' = "convert"
            /\ spotify_playlist_id' = playlist_ids[i]
            /\ converted' = Append(converted, playlist_ids[i])]_vars

\* C15: an insertion has failed after another insertion of the same
\* playlist succeeded, and the input list has a further playlist id.
InsertFailureAbortsOnePlaylistWitness ==
    /\ InsertFailed
    /\ inserted # << >>
    /\ t <= Len(tracks)
    /\ i < Len(playlist_ids)

\* C16: when retry returns the result of func, that invocation is the k-th
\* (1 <= k <= 5), the k-1 before it failed with transient statuses and were
\* each followed by a sleep, the sleeps are 1, 2, 4, ... 2^(k-2) in this
\* order, and the next step leaves retry: no further invocation or sleep.
SuccessfulRetry ==
    /\ []((r_state = "returned" /\ r_value # None) =>
            /\ last = 200
            /\ calls \in 1..5
            /\ attempt = calls - 1
            /\ slept = SubSeq(<< 1, 2, 4, 8 >>, 1, calls - 1))
    /\ [][(r_state = "returned" /\ r_value # None) =>
            (r_state' = "idle" /\ calls' = 0 /\ slept' = << >>)]_vars
    /\ [][(r_state = "loop" /\ r_state' = "returned" /\ r_value' # None) =>
            (calls' = calls + 1 /\ slept' = slept /\ last \in TransientStatuses \cup {200})]_vars

\* C16: retry returns the result of the 5th invocation after four sleeps.
SuccessfulRetryWitness ==
    /\ r_state = "returned"
    /\ r_value # None
    /\ calls = 5
    /\ slept = << 1, 2, 4, 8 >>

\* C17: the step of the loop body for a track whose id is already in
\* existing_video_ids enters no insertion, appends no failure record, leaves
\* the destination, the set and the failure log as they are, and moves to
\* the next track.
SilentSkipOfDuplicates ==
    [][(pc = "check" /\ video_id # None /\ video_id \in existing_video_ids) =>
        /\ pc' = "track"
        /\ t' = t + 1
        /\ r_state' = "idle"
        /\ inserted' = inserted
        /\ youtube' = youtube
        /\ existing_video_ids' = existing_video_ids
        /\ failed_tracks' = failed_tracks]_vars

\* C17: p2's third track resolves to the id inserted for its second track
\* and has been skipped: one insertion, and the loop is past track 3.
SilentSkipOfDuplicatesWitness ==
    /\ spotify_playlist_id = "p2"
    /\ pc = "track"
    /\ t = 4
    /\ inserted = << "v1" >>
    /\ existing_video_ids = listed \cup {"v1"}
    /\ Count(ItemsOf(youtube, yt_playlist_id), "v1") = 1

\* the insert calls due for the first n tracks of the list ds: the ids the
\* tracks resolve to, in the order of ds, each id at its first occurrence
\* only and only when the destination playlist did not list it
InsertsDue(ds, n) ==
    LET due == SelectSeq([k \in 1..n |-> k],
                         LAMBDA k : /\ ExpectedId(ds[k]) # None
                                    /\ ExpectedId(ds[k]) \notin listed
                                    /\ \A j \in 1..(k - 1) :
                                        ExpectedId(ds[j]) # ExpectedId(ds[k]))
    IN [m \in 1..Len(due) |-> ExpectedId(ds[due[m]])]

\* C18: in the for loop of convert_playlist, tracks is the list of the
\* source descriptors in source order, and the insertions made so far are
\* the insertions due for the tracks before the current one, in that order;
\* the track index moves by one, only from the check or the insertion of the
\* current track, and the resolution of a track starts only from the head
\* of the loop, with no call of retry open and the previous id dropped.
TracksInSourceOrder ==
    /\ [](InTrackLoop =>
            /\ tracks = SourceTracks(spotify_playlist_id)
            /\ t \in 1..(Len(tracks) + 1)
            /\ inserted = InsertsDue(SourceTracks(spotify_playlist_id), t - 1))
    /\ [][(InTrackLoop /\ t' # t /\ pc' \notin {"loop", "except"}) =>
            /\ t' = t + 1
            /\ pc \in {"check", "insert"}
            /\ pc' = "track"]_vars
    /\ [][(pc' \in {"search", "check"} /\ pc' # pc) =>
            /\ pc \in {"track", "score"}
            /\ t' = t
            /\ pc = "track" => (r_state = "idle" /\ video_id = None)]_vars

\* C18: p1 has been processed to its end with two insertions, in source
\* order: the cached id of the first track, then the id found for the last.
TracksInSourceOrderWitness ==
    /\ spotify_playlist_id = "p1"
    /\ pc = "track"
    /\ t = 3
    /\ listed = {}
    /\ inserted = << "v9", "v2" >>

\* C19: every run reaches the end of __main__, with the cache saved once;
\* a call of retry makes at most max_retries invocations; the index of the
\* loop over playlist_ids never goes back, each index is converted at most
\* once, and nothing follows the end of the run.
Termination ==
    /\ <>(pc = "done" /\ saves = 1 /\ cache_file.exists)
    /\ [](attempt <= max_retries /\ calls <= max_retries)
    /\ [](i <= Len(playlist_ids) + 1)
    /\ [](Len(converted) \in {i - 1, i} /\ (Converting => Len(converted) = i))
    /\ [][i' >= i /\ Len(converted') >= Len(converted)]_vars
    /\ [][pc = "done" => UNCHANGED vars]_vars

\* C19: the run has ended after two playlists, the first of which was
\* abandoned on an error and the second of which was converted to its end.
TerminationWitness ==
    /\ pc = "done"
    /\ Len(converted) = 2
    /\ converted[1] \notin completed
    /\ converted[2] \in completed

\* the descriptors of all source playlists
Descriptors ==
    UNION {Range(SourceTracks(p)) : p \in DOMAIN SpotifyPlaylists}

\* the number of failure records of descriptor d in the failure log
FailureRecords(d) ==
    Cardinality({k \in 1..Len(failed_tracks) :
        \E p \in DOMAIN SpotifyPlaylists :
            failed_tracks[k] =
                <<"[">> \o SpotifyPlaylists[p].name \o <<"]">> \o d \o <<"\n">>})

\* 1 when the search for d has been answered and its track is not yet
\* through the loop body, else 0
InFlight(d) ==
    IF pc \in {"score", "check"} /\ tracks[t] = d THEN 1 ELSE 0

\* C20: fuzzy_search_youtube changes the cache only by storing, for the
\* descriptor it searched, the id of a result of score above 0, which is the
\* id it returns; when it returns None the cache is unchanged, and nothing
\* else writes the cache after it was loaded.  So a descriptor that resolves
\* to nothing is never in the cache, each of its occurrences goes to the
\* search, and each answered search of it gives one failure record.
OnlyMatchesCached ==
    /\ [][pc = "score" =>
            IF video_id' = None
            THEN cache' = cache
            ELSE /\ \E k \in 1..Len(response) :
                        response[k].score > 0 /\ response[k].videoId = video_id'
                 /\ DOMAIN cache' = DOMAIN cache \cup {tracks[t]}
                 /\ cache'[tracks[t]] = video_id'
                 /\ \A d \in DOMAIN cache \ {tracks[t]} : cache'[d] = cache[d]]_vars
    /\ [][cache' # cache => pc \in {"start", "score"}]_vars
    /\ [](\A d \in Descriptors : ExpectedId(d) = None =>
            /\ d \notin DOMAIN cache
            /\ Count(answered, d) = FailureRecords(d) + InFlight(d))
    /\ [][(pc = "track" /\ t <= Len(tracks) /\ ExpectedId(tracks[t]) = None) =>
            pc' = "search"]_vars
    /\ [][(pc = "check" /\ ExpectedId(tracks[t]) = None) =>
            (Len(failed_tracks') = Len(failed_tracks) + 1 /\ pc' = "track")]_vars

\* C20: p2 has been converted twice in one run; its first track, which
\* resolves to nothing, was searched twice and has two failure records, and
\* the saved cache has no entry for it.
OnlyMatchesCachedWitness ==
    /\ pc = "done"
    /\ converted = << "p2", "p2" >>
    /\ Count(answered, SongC) = 2
    /\ FailureRecords(SongC) = 2
    /\ \A m \in cache_file.members : m[1] # SongC
====
